---- MODULE Spec2Model ----
(***************************************************************************)
(* FileSystemWatcher (src/fswatcher/filesystemwatcher.cpp): an inotify     *)
(* based directory watcher.  The model holds the watcher's private data    *)
(* (watchedDirectories, eventsLoopTimer, watchFdMap), the part of the      *)
(* kernel's inotify instance the code talks to through fd (its watches,    *)
(* its watch-descriptor allocator and its queue of pending records), and   *)
(* the directories on disk.  Every method of the watcher is one action.    *)
(***************************************************************************)
EXTENDS Integers, Sequences, FiniteSets, TLC

\* ------------------------------------------------------------------ bounds
\* number of watch descriptors the kernel hands out in a run
MaxWd == 2
\* number of records that may be pending in the inotify queue
MaxQueue == 2

\* ------------------------------------------------------- files and records
\* QDir values: the path a QDir was constructed with.  "/tmp/lnk" is a
\* symbolic link to "/tmp/w"; DefaultDir is what QDir() holds.
DefaultDir == "."
CurrentPath == "/cwd"
Dirs == {"/tmp/w", "/tmp/lnk", "/tmp/v"}
Inodes == {"w", "v"}
Inode(dir) == IF dir = "/tmp/v" THEN "v" ELSE "w"

\* QDir::absolutePath(): absolute paths stay, the default ("." ) is the
\* current directory
absolutePath(dir) == IF dir = DefaultDir THEN CurrentPath ELSE dir

\* names of the directory entries the file events are about
Names == {"a.txt"}

\* inotify event bits, as sets of bit names; m1 & m2 is m1 \cap m2
IN_MOVE == {"IN_MOVED_FROM", "IN_MOVED_TO"}
fileChangeEvents == {"IN_CLOSE_WRITE"} \cup IN_MOVE
fileRemovalEvents == {"IN_DELETE", "IN_MOVED_FROM"}
\* the mask startWatching asks the kernel for
watchMask == fileChangeEvents \cup fileRemovalEvents
\* the kernel reports one event bit per record, of the bits asked for: a
\* write, a move out of the directory, a deletion (a move into the directory,
\* IN_MOVED_TO, is handled like the write)
EventMasks == {{"IN_CLOSE_WRITE"}, {"IN_MOVED_FROM"}, {"IN_DELETE"}}
IgnoredMask == {"IN_IGNORED"}

\* sizeof(struct inotify_event), and the len field of a record: the name and
\* its NUL, padded to a multiple of the header size; 0 when there is no name
EventHeaderSize == 16
NameFieldLen(name) ==
    IF name = "" THEN 0
    ELSE ((Len(name) + 1 + EventHeaderSize - 1) \div EventHeaderSize) * EventHeaderSize
RawEvent(wd, mask, name) ==
    [wd |-> wd, mask |-> mask, name |-> name, len |-> NameFieldLen(name)]
IgnoredEvent(wd) == RawEvent(wd, IgnoredMask, "")
RecordSize(r) == EventHeaderSize + r.len

\* what the bytes after a record without a name may spell when read as a
\* C string (currentEvent->name with len = 0 is outside the record)
StrayNames == {"", "?"}

bufSize == 4096

\* ---------------------------------------------------------- small helpers
Min(S) == CHOOSE x \in S : \A y \in S : x <= y
Max(S) == CHOOSE x \in S : \A y \in S : y <= x
\* std::map::erase(key), std::map::operator[]= on a function
Erase(map, key) == [k \in DOMAIN map \ {key} |-> map[k]]
Put(map, key, val) == [k \in DOMAIN map \cup {key} |-> IF k = key THEN val ELSE map[k]]
EmptyMap == [k \in {} |-> DefaultDir]

RECURSIVE SumSizes(_)
SumSizes(recs) == IF recs = <<>> THEN 0 ELSE RecordSize(Head(recs)) + SumSizes(Tail(recs))

VARIABLES
    watchedDirectories, \* PrivateData::watchedDirectories, in iteration order
    watchFdMap,         \* PrivateData::watchFdMap: watch descriptor -> QDir
    eventsLoopTimer,    \* eventsLoopTimer.isActive()
    kernelWatches,      \* the inotify instance: watch descriptor -> inode
    nextWd,             \* the inotify instance: next descriptor to hand out
    kernelQueue,        \* the inotify instance: records not yet read
    op,                 \* the last call: its name,
    arg,                \*   its argument,
    ret,                \*   what it returned or threw,
    readRecs,           \*   the records its read() returned,
    emitted,            \*   the signals it emitted,
    pre,                \*   and the state it started from
    stopped,            \* descriptors a stopWatching(int) has deregistered
    lastStart           \* <<[wd, map]>>: the descriptor a registering startWatching(dir)
                        \* returned and the map it started from, kept by the call
                        \* that follows it if that is a stopWatching(int)

vars == <<watchedDirectories, watchFdMap, eventsLoopTimer, kernelWatches, nextWd,
          kernelQueue, op, arg, ret, readRecs, emitted, pre, stopped, lastStart>>

\* -------------------------------------------------- the inotify instance
\* A state of the watcher and of its inotify instance, as the methods below
\* take and return it: map = watchFdMap, timer = eventsLoopTimer is active,
\* watches/nextWd/queue = the inotify instance, ret = the method's result,
\* wd = the descriptor the last inotify_add_watch returned (-1: an error).
EngineState ==
    [map |-> watchFdMap, timer |-> eventsLoopTimer, watches |-> kernelWatches,
     nextWd |-> nextWd, queue |-> kernelQueue, ret |-> "void", wd |-> -1]

\* inotify_add_watch(fd, path, mask): the descriptor of the watch the inode
\* has already, else the next descriptor; -1 when the kernel refuses.
inotify_add_watch(st, inode, denied) ==
    IF inode \in denied THEN [st EXCEPT !.wd = -1]
    ELSE IF \E w \in DOMAIN st.watches : st.watches[w] = inode
         THEN [st EXCEPT !.wd = CHOOSE w \in DOMAIN st.watches : st.watches[w] = inode]
         ELSE [st EXCEPT !.wd = st.nextWd,
                         !.watches = Put(st.watches, st.nextWd, inode),
                         !.nextWd = st.nextWd + 1]

\* inotify_rm_watch(fd, wd): EINVAL (-1) for a descriptor that is no watch of
\* the instance; else the watch goes and an IN_IGNORED record is queued.
inotify_rm_watch(st, wd) ==
    IF wd \notin DOMAIN st.watches THEN [st EXCEPT !.wd = -1]
    ELSE [st EXCEPT !.wd = 0,
                    !.watches = Erase(st.watches, wd),
                    !.queue = Append(st.queue, IgnoredEvent(wd))]

\* read(fd, buffer, bufSize) with records pending: as many whole records
\* from the head of the queue as fit the buffer.
RECURSIVE FittingPrefix(_, _)
FittingPrefix(queue, room) ==
    IF queue = <<>> \/ RecordSize(Head(queue)) > room THEN <<>>
    ELSE <<Head(queue)>> \o FittingPrefix(Tail(queue), room - RecordSize(Head(queue)))

\* What read() can give: rv > 0 with records, -1 with EAGAIN when nothing is
\* pending, and the outcomes the code guards against: 0, -1 with another errno.
ReadOutcomes(queue, size) ==
    (IF queue = <<>>
     THEN {[rv |-> -1, error |-> "EAGAIN", recs |-> <<>>]}
     ELSE {[rv |-> SumSizes(FittingPrefix(queue, size)), error |-> "",
            recs |-> FittingPrefix(queue, size)]})
    \cup {[rv |-> 0, error |-> "", recs |-> <<>>],
          [rv |-> -1, error |-> "EINTR", recs |-> <<>>],
          [rv |-> -1, error |-> "EBADF", recs |-> <<>>]}

strerror(error) ==
    IF error = "EINTR" THEN "Interrupted system call"
    ELSE IF error = "EBADF" THEN "Bad file descriptor"
    ELSE "Resource temporarily unavailable"

\* ------------------------------------------------------ readEventsFromFd
INotifyEvent(mask, path) == [mask |-> mask, path |-> path]

\* index of the record that starts at offset p of the buffer
RecordAt(recs, p) == CHOOSE i \in 1..Len(recs) : SumSizes(SubSeq(recs, 1, i - 1)) = p

\* currentEvent->name as a C string
NameOf(r, stray) == IF r.len = 0 THEN stray ELSE r.name

\* ParseBuffer with the "/" between the directory and the name left out
RECURSIVE ParseBufferNoSeparator(_, _, _, _, _)
ParseBufferNoSeparator(recs, p, rv, st, stray) ==
    IF ~(p < rv) THEN st
    ELSE LET currentEvent == recs[RecordAt(recs, p)]
             relativePath == NameOf(currentEvent, stray)
             map == IF currentEvent.wd \in DOMAIN st.map THEN st.map
                    ELSE Put(st.map, currentEvent.wd, DefaultDir)
             directory == map[currentEvent.wd]
             event == INotifyEvent(currentEvent.mask,
                                   absolutePath(directory) \o relativePath)
         IN  ParseBufferNoSeparator(recs, p + EventHeaderSize + currentEvent.len, rv,
                                    [map |-> map, events |-> Append(st.events, event)],
                                    stray)

\* ParseBuffer that takes the first record of the buffer and leaves the loop
ParseBufferFirstOnly(recs, p, rv, st, stray) ==
    IF ~(p < rv) THEN st
    ELSE LET currentEvent == recs[RecordAt(recs, p)]
             relativePath == NameOf(currentEvent, stray)
             map == IF currentEvent.wd \in DOMAIN st.map THEN st.map
                    ELSE Put(st.map, currentEvent.wd, DefaultDir)
             directory == map[currentEvent.wd]
             event == INotifyEvent(currentEvent.mask,
                                   absolutePath(directory) \o "/" \o relativePath)
         IN  [map |-> map, events |-> Append(st.events, event)]

\* for (char* p = buffer; p < buffer + rv;) { ... }: st = [map, events]
RECURSIVE ParseBuffer(_, _, _, _, _)
ParseBuffer(recs, p, rv, st, stray) ==
    IF ~(p < rv) THEN st
    ELSE LET currentEvent == recs[RecordAt(recs, p)]
             relativePath == NameOf(currentEvent, stray)
             \* watchFdMap[currentEvent->wd]: inserts QDir() for a missing key
             map == IF currentEvent.wd \in DOMAIN st.map THEN st.map
                    ELSE Put(st.map, currentEvent.wd, DefaultDir)
             directory == map[currentEvent.wd]
             event == INotifyEvent(currentEvent.mask,
                                   absolutePath(directory) \o "/" \o relativePath)
         IN  ParseBuffer(recs, p + EventHeaderSize + currentEvent.len, rv,
                         [map |-> map, events |-> Append(st.events, event)], stray)

ZeroReadError == "read() on inotify FD must never return 0"
ReadError(error) == "Failed to read from inotify fd: " \o strerror(error)

\* readEventsFromFd taking a read of 0 bytes for "no events"
readEventsFromFdZeroIsEmpty(rd, map, stray) ==
    IF rd.rv = 0 \/ (rd.rv = -1 /\ rd.error = "EAGAIN")
    THEN [thrown |-> "", events |-> <<>>, map |-> map]
    ELSE IF rd.rv = -1
    THEN [thrown |-> ReadError(rd.error), events |-> <<>>, map |-> map]
    ELSE LET st == ParseBuffer(rd.recs, 0, rd.rv, [map |-> map, events |-> <<>>], stray)
         IN  [thrown |-> "", events |-> st.events, map |-> st.map]

\* readEventsFromFd taking EAGAIN for a failure like any other errno
readEventsFromFdAgainThrows(rd, map, stray) ==
    IF rd.rv = 0 THEN [thrown |-> ZeroReadError, events |-> <<>>, map |-> map]
    ELSE IF rd.rv = -1
    THEN [thrown |-> ReadError(rd.error), events |-> <<>>, map |-> map]
    ELSE LET st == ParseBuffer(rd.recs, 0, rd.rv, [map |-> map, events |-> <<>>], stray)
         IN  [thrown |-> "", events |-> st.events, map |-> st.map]

\* the result: thrown = the FileSystemWatcherError's message ("" if none),
\* events = the vector returned, map = watchFdMap afterwards
readEventsFromFd(rd, map, stray) ==
    IF rd.rv = 0 THEN [thrown |-> ZeroReadError, events |-> <<>>, map |-> map]
    ELSE IF rd.rv = -1
    THEN IF rd.error = "EAGAIN" THEN [thrown |-> "", events |-> <<>>, map |-> map]
         ELSE [thrown |-> ReadError(rd.error), events |-> <<>>, map |-> map]
    ELSE LET st == ParseBuffer(rd.recs, 0, rd.rv, [map |-> map, events |-> <<>>], stray)
         IN  [thrown |-> "", events |-> st.events, map |-> st.map]

\* ------------------------------------------------------------ readEvents
Signal(name, path) == [signal |-> name, path |-> path]

\* the body of the loop of readEvents: the signals one event emits
EmitForRemovalFirst(event) ==
    IF event.mask \cap fileRemovalEvents # {} THEN <<Signal("fileRemoved", event.path)>>
    ELSE IF event.mask \cap fileChangeEvents # {} THEN <<Signal("fileChanged", event.path)>>
    ELSE <<>>

EmitFor(event) ==
    IF event.mask \cap fileChangeEvents # {} THEN <<Signal("fileChanged", event.path)>>
    ELSE IF event.mask \cap fileRemovalEvents # {} THEN <<Signal("fileRemoved", event.path)>>
    ELSE <<>>

RECURSIVE EmitAll(_)
EmitAll(events) ==
    IF events = <<>> THEN <<>> ELSE EmitFor(Head(events)) \o EmitAll(Tail(events))

\* the result: thrown, emitted = the signals in order, map
readEvents(rd, map, stray) ==
    LET got == readEventsFromFd(rd, map, stray)
    IN  [thrown |-> got.thrown, map |-> got.map,
         emitted |-> IF got.thrown # "" THEN <<>> ELSE EmitAll(got.events)]

\* ----------------------------------------- startWatching / stopWatching
\* QDir::exists(): the directory the path leads to is on disk
Exists(directory, onDisk) == Inode(directory) \in onDisk

\* startWatching taking a missing directory for a failure
startWatchingMissingFails(st, directory, onDisk, denied) ==
    IF ~Exists(directory, onDisk) THEN [st EXCEPT !.ret = "false", !.wd = -1]
    ELSE LET added == inotify_add_watch(st, Inode(directory), denied)
             watchFd == added.wd
         IN  IF watchFd = -1 THEN [added EXCEPT !.ret = "false"]
             ELSE [added EXCEPT !.map = Put(added.map, watchFd, directory),
                                !.timer = TRUE,
                                !.ret = "true"]

\* startWatching writing the entry with insert(), which keeps an entry that
\* is there already
startWatchingInsertOnly(st, directory, onDisk, denied) ==
    IF ~Exists(directory, onDisk) THEN [st EXCEPT !.ret = "true", !.wd = -1]
    ELSE LET added == inotify_add_watch(st, Inode(directory), denied)
             watchFd == added.wd
         IN  IF watchFd = -1 THEN [added EXCEPT !.ret = "false"]
             ELSE [added EXCEPT !.map = IF watchFd \in DOMAIN added.map THEN added.map
                                        ELSE Put(added.map, watchFd, directory),
                                !.timer = TRUE,
                                !.ret = "true"]

\* bool startWatching(const QDir& directory)
startWatching(st, directory, onDisk, denied) ==
    IF ~Exists(directory, onDisk) THEN [st EXCEPT !.ret = "true", !.wd = -1]
    ELSE LET added == inotify_add_watch(st, Inode(directory), denied)
             watchFd == added.wd
         IN  IF watchFd = -1 THEN [added EXCEPT !.ret = "false"]
             ELSE [added EXCEPT !.map = Put(added.map, watchFd, directory),
                                !.timer = TRUE,
                                !.ret = "true"]

\* the loop of startWatching() going on after a failed registration
RECURSIVE startWatchingFromKeepsGoing(_, _, _, _, _)
startWatchingFromKeepsGoing(st, dirs, i, onDisk, denied) ==
    IF i > Len(dirs) THEN [st EXCEPT !.ret = "true"]
    ELSE LET one == startWatching(st, dirs[i], onDisk, denied)
             rest == startWatchingFromKeepsGoing([one EXCEPT !.ret = st.ret], dirs, i + 1,
                                                 onDisk, denied)
         IN  IF one.ret # "true" THEN [rest EXCEPT !.ret = "false"]
             ELSE IF rest.ret = "false" THEN rest ELSE [rest EXCEPT !.ret = "true"]

\* bool startWatching(): over watchedDirectories, from index i on
RECURSIVE startWatchingFrom(_, _, _, _, _)
startWatchingFrom(st, dirs, i, onDisk, denied) ==
    IF i > Len(dirs) THEN [st EXCEPT !.ret = "true"]
    ELSE LET one == startWatching(st, dirs[i], onDisk, denied)
         IN  IF one.ret # "true" THEN [one EXCEPT !.ret = "false"]
             ELSE startWatchingFrom(one, dirs, i + 1, onDisk, denied)

startWatchingAll(st, dirs, onDisk, denied) == startWatchingFrom(st, dirs, 1, onDisk, denied)

\* stopWatching(int) that leaves the entry in the map
stopWatchingKeepsEntry(st, watchFd) ==
    LET removed == inotify_rm_watch(st, watchFd)
    IN  IF removed.wd = -1 THEN [removed EXCEPT !.ret = "false"]
        ELSE [removed EXCEPT !.timer = FALSE, !.ret = "true"]

\* stopWatching(int) that erases the entry and stops the timer before it
\* looks at what inotify_rm_watch returned
stopWatchingErasesFirst(st, watchFd) ==
    LET removed == inotify_rm_watch(st, watchFd)
        erased == [removed EXCEPT !.map = Erase(removed.map, watchFd), !.timer = FALSE]
    IN  IF removed.wd = -1 THEN [erased EXCEPT !.ret = "false"]
        ELSE [erased EXCEPT !.ret = "true"]

\* stopWatching(int) that stops the timer only when it erased the last entry
stopWatchingStopsTimerWhenEmpty(st, watchFd) ==
    LET removed == inotify_rm_watch(st, watchFd)
        map == Erase(removed.map, watchFd)
    IN  IF removed.wd = -1 THEN [removed EXCEPT !.ret = "false"]
        ELSE [removed EXCEPT !.map = map,
                             !.timer = IF DOMAIN map = {} THEN FALSE ELSE removed.timer,
                             !.ret = "true"]

\* stopWatching(int) that erases the entry and leaves the timer running
stopWatchingKeepsTimer(st, watchFd) ==
    LET removed == inotify_rm_watch(st, watchFd)
    IN  IF removed.wd = -1 THEN [removed EXCEPT !.ret = "false"]
        ELSE [removed EXCEPT !.map = Erase(removed.map, watchFd), !.ret = "true"]

\* bool stopWatching(int watchFd)
stopWatching(st, watchFd) ==
    LET removed == inotify_rm_watch(st, watchFd)
    IN  IF removed.wd = -1 THEN [removed EXCEPT !.ret = "false"]
        ELSE [removed EXCEPT !.map = Erase(removed.map, watchFd),
                             !.timer = FALSE,
                             !.ret = "true"]

\* the loop of stopWatching() trying a handle a second time when its
\* deregistration failed
RECURSIVE stopWatchingLoopRetries(_)
stopWatchingLoopRetries(st) ==
    IF DOMAIN st.map = {} THEN [st EXCEPT !.timer = FALSE, !.ret = "true"]
    ELSE LET watchFd == Min(DOMAIN st.map)
             one == stopWatching(st, watchFd)
             again == IF one.ret # "true" THEN stopWatching(one, watchFd) ELSE one
             noted == [again EXCEPT !.tried =
                          IF one.ret # "true" THEN st.tried \o <<watchFd, watchFd>>
                          ELSE Append(st.tried, watchFd)]
         IN  IF again.ret # "true" THEN [noted EXCEPT !.ret = "false"]
             ELSE stopWatchingLoopRetries(noted)

\* the loop of stopWatching() taking the last entry of the map, not the first
RECURSIVE stopWatchingLoopFromLast(_)
stopWatchingLoopFromLast(st) ==
    IF DOMAIN st.map = {} THEN [st EXCEPT !.timer = FALSE, !.ret = "true"]
    ELSE LET watchFd == Max(DOMAIN st.map)
             one == stopWatching(st, watchFd)
             noted == [one EXCEPT !.tried = Append(st.tried, watchFd)]
         IN  IF one.ret # "true" THEN [noted EXCEPT !.ret = "false"]
             ELSE stopWatchingLoopFromLast(noted)

\* bool stopWatching(): st.tried collects the descriptors handed to
\* stopWatching(int), in order
RECURSIVE stopWatchingLoop(_)
stopWatchingLoop(st) ==
    IF DOMAIN st.map = {} THEN [st EXCEPT !.timer = FALSE, !.ret = "true"]
    ELSE LET watchFd == Min(DOMAIN st.map)
             one == stopWatching(st, watchFd)
             noted == [one EXCEPT !.tried = Append(st.tried, watchFd)]
         IN  IF one.ret # "true" THEN [noted EXCEPT !.ret = "false"]
             ELSE stopWatchingLoop(noted)

stopWatchingAll(st) ==
    stopWatchingLoop([map |-> st.map, timer |-> st.timer, watches |-> st.watches,
                      nextWd |-> st.nextWd, queue |-> st.queue, ret |-> st.ret,
                      wd |-> st.wd, tried |-> <<>>])

\* ------------------------------------------------------------- the state
Snapshot == [map |-> watchFdMap, timer |-> eventsLoopTimer, watches |-> kernelWatches]
NoSnapshot == [map |-> EmptyMap, timer |-> FALSE, watches |-> [k \in {} |-> "w"]]

\* the orders a QDirSet of declared directories can be iterated in
DeclaredSets == {<<"/tmp/lnk", "/tmp/v", "/tmp/w">>}

\* no call is under way: the last one has returned and its record is cleared
Idle == "idle"

Init ==
    /\ watchedDirectories \in DeclaredSets
    /\ watchFdMap = EmptyMap
    /\ eventsLoopTimer = FALSE
    /\ kernelWatches = [k \in {} |-> "w"]
    /\ nextWd = 1
    /\ kernelQueue = <<>>
    /\ op = Idle
    /\ arg = ""
    /\ ret = "void"
    /\ readRecs = <<>>
    /\ emitted = <<>>
    /\ pre = NoSnapshot
    /\ stopped = {}
    /\ lastStart = <<>>

\* the watcher and the inotify instance take the state a method returned;
\* the runs are those in which at most MaxQueue records are ever pending
Becomes(st) ==
    /\ Len(st.queue) <= MaxQueue
    /\ watchFdMap' = st.map
    /\ eventsLoopTimer' = st.timer
    /\ kernelWatches' = st.watches
    /\ nextWd' = st.nextWd
    /\ kernelQueue' = st.queue
    /\ ret' = st.ret

\* ------------------------------------------------------------ the calls
\* the directories on disk include the watched ones
WatchedInodes == {kernelWatches[w] : w \in DOMAIN kernelWatches}
OnDisk(onDisk) == WatchedInodes \subseteq onDisk

StartWatching(directory, onDisk, denied) ==
    LET st == startWatching(EngineState, directory, onDisk, denied)
    IN  /\ op = Idle
        /\ OnDisk(onDisk)
        /\ st.nextWd <= MaxWd + 1
        /\ Becomes(st)
        /\ op' = "startWatching(dir)"
        /\ arg' = [directory |-> directory, exists |-> Exists(directory, onDisk),
                    refused |-> Inode(directory) \in denied]
        /\ pre' = Snapshot
        /\ lastStart' = IF st.wd # -1 THEN <<[wd |-> st.wd, map |-> watchFdMap]>> ELSE <<>>
        /\ readRecs' = <<>>
        /\ emitted' = <<>>
        /\ UNCHANGED <<watchedDirectories, stopped>>

StartWatchingBatch(onDisk, denied) ==
    LET st == startWatchingAll(EngineState, watchedDirectories, onDisk, denied)
    IN  /\ op = Idle
        /\ OnDisk(onDisk)
        /\ st.nextWd <= MaxWd + 1
        /\ Becomes(st)
        /\ op' = "startWatching()"
        /\ arg' = [onDisk |-> onDisk, denied |-> denied]
        /\ pre' = Snapshot
        /\ lastStart' = <<>>
        /\ readRecs' = <<>>
        /\ emitted' = <<>>
        /\ UNCHANGED <<watchedDirectories, stopped>>

StopWatching(watchFd) ==
    LET st == stopWatching(EngineState, watchFd)
    IN  /\ op = Idle
        /\ Becomes(st)
        /\ op' = "stopWatching(wd)"
        /\ arg' = watchFd
        /\ pre' = Snapshot
        /\ lastStart' = lastStart
        /\ stopped' = stopped \cup (DOMAIN kernelWatches \ DOMAIN st.watches)
        /\ readRecs' = <<>>
        /\ emitted' = <<>>
        /\ UNCHANGED watchedDirectories

StopWatchingBatch ==
    LET st == stopWatchingAll(EngineState)
    IN  /\ op = Idle
        /\ Becomes(st)
        /\ op' = "stopWatching()"
        /\ arg' = st.tried
        /\ pre' = Snapshot
        /\ lastStart' = <<>>
        /\ stopped' = stopped \cup (DOMAIN kernelWatches \ DOMAIN st.watches)
        /\ readRecs' = <<>>
        /\ emitted' = <<>>
        /\ UNCHANGED watchedDirectories

\* void readEvents(), with the outcome rd of its read().  It is the slot of
\* eventsLoopTimer's timeout and a method any caller may invoke, so it is
\* not tied to the timer being active.
ReadEvents(rd, stray) ==
    LET got == readEvents(rd, watchFdMap, stray)
    IN  /\ op = Idle
        /\ watchFdMap' = got.map
        /\ kernelQueue' = SubSeq(kernelQueue, Len(rd.recs) + 1, Len(kernelQueue))
        /\ ret' = IF got.thrown # "" THEN got.thrown ELSE "void"
        /\ emitted' = got.emitted
        /\ readRecs' = rd.recs
        /\ op' = "readEvents"
        /\ arg' = [rv |-> rd.rv, error |-> rd.error]
        /\ pre' = Snapshot
        /\ lastStart' = <<>>
        /\ UNCHANGED <<watchedDirectories, eventsLoopTimer, kernelWatches, nextWd, stopped>>

\* the caller has the call's result; the record of the call is cleared
Return ==
    /\ op # Idle
    /\ op' = Idle
    /\ arg' = ""
    /\ ret' = "void"
    /\ readRecs' = <<>>
    /\ emitted' = <<>>
    /\ pre' = NoSnapshot
    /\ lastStart' = IF op = "startWatching(dir)" THEN lastStart ELSE <<>>
    /\ UNCHANGED <<watchedDirectories, watchFdMap, eventsLoopTimer, kernelWatches,
                   nextWd, kernelQueue, stopped>>

\* ------------------------------------------------------- the file system
Outside ==
    /\ op = Idle
    /\ lastStart' = <<>>
    /\ UNCHANGED <<watchedDirectories, watchFdMap, eventsLoopTimer, nextWd,
                   op, arg, ret, readRecs, emitted, pre, stopped>>

\* something happens to an entry of a watched directory
FileEvent(wd, mask, name) ==
    /\ Outside
    /\ wd \in DOMAIN kernelWatches
    /\ Len(kernelQueue) < MaxQueue
    /\ kernelQueue' = Append(kernelQueue, RawEvent(wd, mask, name))
    /\ UNCHANGED kernelWatches

\* a watched directory is removed or unmounted: the kernel drops its watch
\* and queues IN_IGNORED
WatchDropped(wd) ==
    /\ Outside
    /\ wd \in DOMAIN kernelWatches
    /\ Len(kernelQueue) < MaxQueue
    /\ kernelWatches' = Erase(kernelWatches, wd)
    /\ kernelQueue' = Append(kernelQueue, IgnoredEvent(wd))

\* the descriptors a caller may hand to stopWatching(int)
Handles == 1..MaxWd

Next ==
    \/ \E directory \in Dirs, exists \in BOOLEAN, ok \in BOOLEAN :
          /\ exists \/ ok
          /\ StartWatching(directory,
                           WatchedInodes \cup (IF exists THEN {Inode(directory)} ELSE {}),
                           IF ok THEN {} ELSE {Inode(directory)})
    \/ \E onDisk \in SUBSET Inodes, denied \in SUBSET Inodes :
          /\ denied \subseteq onDisk
          /\ StartWatchingBatch(onDisk, denied)
    \/ \E watchFd \in Handles : StopWatching(watchFd)
    \/ StopWatchingBatch
    \/ \E rd \in ReadOutcomes(kernelQueue, bufSize), stray \in StrayNames :
          /\ op = Idle
          /\ stray = "" \/ \E i \in 1..Len(rd.recs) : rd.recs[i].len = 0
          /\ ReadEvents(rd, stray)
    \/ \E wd \in Handles, mask \in EventMasks, name \in Names : FileEvent(wd, mask, name)
    \/ \E wd \in Handles : WatchDropped(wd)
    \/ Return

Spec == Init /\ [][Next]_vars

\* ------------------------------------------- more records than one read takes
\* A burst in a watched directory: entries with long names, so that a few
\* records fill the buffer of one read.
Stem16 == "0123456789abcdef"
Stem64 == Stem16 \o Stem16 \o Stem16 \o Stem16
LongStem == Stem64 \o Stem64 \o Stem64 \o Stem16 \o Stem16 \o Stem16
BurstName(i) == LongStem \o ToString(i)
BurstRecords(wd, mask, n) == [i \in 1..n |-> RawEvent(wd, mask, BurstName(i))]

\* the records of a burst that one read(fd, buffer, bufSize) takes, and the
\* burst lengths around it: one less, as many, and up to MaxQueue more
BurstFits == bufSize \div RecordSize(RawEvent(1, {"IN_DELETE"}, BurstName(1)))
BurstSizes == (BurstFits - 1)..(BurstFits + MaxQueue)

FileBurst(wd, mask, n) ==
    /\ Outside
    /\ wd \in DOMAIN kernelWatches
    /\ kernelQueue = <<>>
    /\ kernelQueue' = BurstRecords(wd, mask, n)
    /\ UNCHANGED kernelWatches

NextBurst ==
    \/ \E directory \in Dirs :
          StartWatching(directory, WatchedInodes \cup {Inode(directory)}, {})
    \/ \E wd \in Handles, mask \in EventMasks, n \in BurstSizes : FileBurst(wd, mask, n)
    \/ \E rd \in ReadOutcomes(kernelQueue, bufSize) : ReadEvents(rd, "")
    \/ Return

SpecBurst == Init /\ [][NextBurst]_vars

\* ---------------------------------------------------------- properties
IsPoll == op = "readEvents"
IsStart == op = "startWatching(dir)"
IsStop == op = "stopWatching(wd)"
IsStopAll == op = "stopWatching()"

\* C1: with another directory still registered, a poll whose read returns only
\* records bearing handles that stopWatching has deregistered emits no event,
\* whatever the records' flags and names are.
C1_StoppedHandleEmitsNothing ==
    (/\ IsPoll
     /\ readRecs # <<>>
     /\ \A i \in 1..Len(readRecs) : readRecs[i].wd \in stopped
     /\ \E h \in DOMAIN pre.map : h \notin stopped)
    => emitted = <<>>

\* C2: every key of the handle->directory mapping is a handle of a currently
\* active registration of the inotify instance.  Stated for the states in
\* which a call has just returned and no record is pending, so that the
\* watcher has read all the kernel had to tell it.
C2_KeysAreActiveWatches ==
    (op # Idle /\ kernelQueue = <<>>) => DOMAIN watchFdMap \subseteq DOMAIN kernelWatches

\* C3: when the bulk stopWatching() returns false and polling was armed when
\* the call began, the entries it did not deregister are still in the mapping
\* and polling is still armed.
C3_PartialStopKeepsPolling ==
    (IsStopAll /\ ret = "false" /\ pre.timer)
    => /\ eventsLoopTimer
       /\ \A h \in DOMAIN pre.map \ stopped :
             h \in DOMAIN watchFdMap /\ watchFdMap[h] = pre.map[h]

\* the keys of a map in ascending order
RECURSIVE Ascending(_)
Ascending(S) == IF S = {} THEN <<>> ELSE <<Min(S)>> \o Ascending(S \ {Min(S)})

\* C4: the bulk stopWatching() goes through the mapping in ascending handle
\* order; if every deregistration succeeds it returns true with an empty
\* mapping and polling disarmed; if one fails it returns false at once and
\* the mapping holds exactly the failed entry and the entries after it.
C4_BulkStopInOrder ==
    IsStopAll =>
        LET keys == DOMAIN pre.map
            failing == {h \in keys : h \notin DOMAIN pre.watches}
        IN  IF failing = {}
            THEN /\ ret = "true"
                 /\ watchFdMap = EmptyMap
                 /\ ~eventsLoopTimer
                 /\ arg = Ascending(keys)
            ELSE /\ ret = "false"
                 /\ DOMAIN watchFdMap = {h \in keys : h >= Min(failing)}
                 /\ \A h \in DOMAIN watchFdMap : watchFdMap[h] = pre.map[h]
                 /\ arg = Ascending({h \in keys : h <= Min(failing)})

C4_Witness ==
    /\ IsStopAll
    /\ ret = "false"
    /\ DOMAIN watchFdMap # {}
    /\ DOMAIN watchFdMap # DOMAIN pre.map

\* a stopWatching(int) of the handle that the startWatching(dir) right before
\* it registered has succeeded
RoundTrip ==
    /\ IsStop
    /\ ret = "true"
    /\ lastStart # <<>>
    /\ arg = lastStart[1].wd

\* C5 as stated: after the round trip the mapping is what it was before the
\* startWatching, also when the directory was registered already.
C5_RoundTripAlways == RoundTrip => watchFdMap = lastStart[1].map

\* C5, amended: after the round trip the mapping is what it was before the
\* startWatching, provided the handle the registration returned was not a key
\* of the mapping before the startWatching.
C5_RoundTripOfNewHandle ==
    (RoundTrip /\ lastStart[1].wd \notin DOMAIN lastStart[1].map)
    => watchFdMap = lastStart[1].map

C5_Witness ==
    /\ RoundTrip
    /\ lastStart[1].wd \notin DOMAIN lastStart[1].map
    /\ DOMAIN lastStart[1].map # {}

\* C6: readEvents never changes the handle->directory mapping, whatever its
\* read returns.
C6_PollKeepsMapping == IsPoll => watchFdMap = pre.map

\* the records of a read that fall into the change or the removal category
Classified(recs) ==
    SelectSeq(recs, LAMBDA r : r.mask \cap (fileChangeEvents \cup fileRemovalEvents) # {})

\* C7: when every record of a read bears a handle of the mapping, the poll
\* emits one event for each record of the change or removal category and none
\* for the others, in the order of the records, each with the path
\* <absolute path of mapping[handle]>/<name>.
C7_EmitsClassifiedInOrder ==
    (/\ IsPoll
     /\ arg.rv > 0
     /\ \A i \in 1..Len(readRecs) : readRecs[i].wd \in DOMAIN pre.map)
    => /\ ret = "void"
       /\ Len(emitted) = Len(Classified(readRecs))
       /\ \A k \in 1..Len(emitted) :
             /\ emitted[k].signal \in {"fileChanged", "fileRemoved"}
             /\ emitted[k].path =
                   absolutePath(pre.map[Classified(readRecs)[k].wd]) \o "/"
                       \o Classified(readRecs)[k].name

C7_Witness ==
    /\ IsPoll
    /\ \A i \in 1..Len(readRecs) : readRecs[i].wd \in DOMAIN pre.map
    /\ Len(readRecs) = 2
    /\ Len(emitted) = 2
    /\ emitted[1].path # emitted[2].path

\* C8: startWatching(D) for a directory that does not exist returns true and
\* leaves the mapping, the registrations and the polling trigger as they were.
C8_MissingDirectoryIsNoOp ==
    (IsStart /\ ~arg.exists)
    => /\ ret = "true"
       /\ watchFdMap = pre.map
       /\ kernelWatches = pre.watches
       /\ eventsLoopTimer = pre.timer

C8_Witness ==
    /\ IsStart
    /\ ~arg.exists
    /\ DOMAIN watchFdMap # {}
    /\ ~eventsLoopTimer

\* C9: when the registration in startWatching(D) or the deregistration in
\* stopWatching(h) fails, the call returns false and the mapping and the
\* polling trigger are as before the call.
C9_FailureChangesNothing ==
    (\/ IsStart /\ arg.exists /\ arg.refused
     \/ IsStop /\ arg \notin DOMAIN pre.watches)
    => /\ ret = "false"
       /\ watchFdMap = pre.map
       /\ eventsLoopTimer = pre.timer

C9_Witness ==
    /\ IsStop
    /\ ret = "false"
    /\ arg \in DOMAIN watchFdMap
    /\ eventsLoopTimer

\* C10: a poll whose read returns 0 raises the "must never return 0" error, a
\* poll whose read fails with an errno other than EAGAIN raises another, the
\* "Failed to read" error; both emit nothing and leave the mapping alone.
C10_FatalReadEmitsNothing ==
    (IsPoll /\ (arg.rv = 0 \/ (arg.rv = -1 /\ arg.error # "EAGAIN")))
    => /\ emitted = <<>>
       /\ watchFdMap = pre.map
       /\ arg.rv = 0 => ret = "read() on inotify FD must never return 0"
       /\ arg.rv = -1 =>
             ret \in {"Failed to read from inotify fd: Interrupted system call",
                      "Failed to read from inotify fd: Bad file descriptor"}

C10_Witness ==
    /\ IsPoll
    /\ arg.rv = 0
    /\ ret # "void"
    /\ kernelQueue # <<>>
    /\ \E i \in 1..Len(kernelQueue) : kernelQueue[i].wd \in DOMAIN watchFdMap

\* C11: a poll whose read reports EAGAIN emits nothing, raises nothing and
\* leaves the mapping, the polling trigger, the registrations and the (empty)
\* queue as they were.
C11_NoDataIsNoOp ==
    (IsPoll /\ arg.rv = -1 /\ arg.error = "EAGAIN")
    => /\ emitted = <<>>
       /\ ret = "void"
       /\ watchFdMap = pre.map
       /\ eventsLoopTimer = pre.timer
       /\ kernelWatches = pre.watches
       /\ kernelQueue = <<>>

C11_Witness ==
    /\ IsPoll
    /\ arg.error = "EAGAIN"
    /\ ret = "void"
    /\ eventsLoopTimer
    /\ DOMAIN watchFdMap # {}

IsStartAll == op = "startWatching()"

\* the index of the first declared directory whose registration fails in a
\* batch with the directories onDisk present and those of denied refused,
\* one past the last index when none fails; the indices registered before it
FirstRefused(dirs, onDisk, denied) ==
    LET refused == {i \in 1..Len(dirs) :
                        Inode(dirs[i]) \in onDisk /\ Inode(dirs[i]) \in denied}
    IN  IF refused = {} THEN Len(dirs) + 1 ELSE Min(refused)
RegisteredBefore(dirs, onDisk, denied) ==
    {i \in 1..FirstRefused(dirs, onDisk, denied) - 1 : Inode(dirs[i]) \in onDisk}

\* C12: the batch startWatching() takes the declared directories in order,
\* skips the missing ones, returns false at the first refused registration
\* without going on to the directories after it, keeps what it registered
\* before, and returns true only when no registration was refused.
C12_BatchStartStopsAtFirstFailure ==
    IsStartAll =>
        LET dirs == watchedDirectories
            done == RegisteredBefore(dirs, arg.onDisk, arg.denied)
            inodes == {Inode(dirs[i]) : i \in done}
            last(n) == Max({i \in done : Inode(dirs[i]) = n})
            handles == {h \in DOMAIN kernelWatches : kernelWatches[h] \in inodes}
        IN  /\ ret = IF FirstRefused(dirs, arg.onDisk, arg.denied) <= Len(dirs)
                     THEN "false" ELSE "true"
            /\ {kernelWatches[h] : h \in DOMAIN kernelWatches}
                  = {pre.watches[h] : h \in DOMAIN pre.watches} \cup inodes
            /\ DOMAIN watchFdMap = DOMAIN pre.map \cup handles
            /\ \A h \in handles : watchFdMap[h] = dirs[last(kernelWatches[h])]
            /\ \A h \in DOMAIN pre.map \ handles : watchFdMap[h] = pre.map[h]
            /\ eventsLoopTimer = (pre.timer \/ done # {})

C12_Witness ==
    /\ IsStartAll
    /\ ret = "false"
    /\ DOMAIN watchFdMap # DOMAIN pre.map

\* a startWatching call, single or batch, that registered a directory
StartRegistered ==
    \/ IsStart /\ ret = "true" /\ arg.exists
    \/ IsStartAll /\ RegisteredBefore(watchedDirectories, arg.onDisk, arg.denied) # {}

\* C13: after a successful stopWatching(h), h is no key of the mapping and
\* polling is disarmed however many entries remain; and from a state with
\* entries left and polling disarmed, no call arms polling but a startWatching
\* that registered a directory, and none removes an entry but a stopWatching.
C13_StopDisarmsUntilNextStart ==
    /\ (IsStop /\ ret = "true") => (arg \notin DOMAIN watchFdMap /\ ~eventsLoopTimer)
    /\ (op # Idle /\ DOMAIN pre.map # {} /\ ~pre.timer)
       => /\ eventsLoopTimer => StartRegistered
          /\ ~(DOMAIN pre.map \subseteq DOMAIN watchFdMap) => (IsStop \/ IsStopAll)

C13_Witness ==
    /\ IsStop
    /\ ret = "true"
    /\ pre.timer
    /\ DOMAIN watchFdMap # {}
    /\ ~eventsLoopTimer

\* C14: the inotify instance accepts the deregistration of every handle it
\* has registered, so every bulk stopWatching() returns true and leaves the
\* mapping empty and polling disarmed.
C14_BulkStopSucceeds ==
    IsStopAll => (ret = "true" /\ watchFdMap = EmptyMap /\ ~eventsLoopTimer)

C16_EachRecordConsumedOnce ==
    [][(op = Idle /\ op' = "readEvents")
       => IF arg'.rv > 0
          THEN /\ readRecs' # <<>>
               /\ readRecs' \o kernelQueue' = kernelQueue
               /\ SumSizes(readRecs') = arg'.rv
               /\ arg'.rv <= bufSize
               /\ kernelQueue' # <<>> => arg'.rv + RecordSize(Head(kernelQueue')) > bufSize
               /\ LET recs == Classified(readRecs')
                  IN  /\ Len(emitted') = Len(recs)
                      /\ \A k \in 1..Len(recs) :
                            /\ recs[k].wd \in DOMAIN watchFdMap
                            /\ emitted'[k].path = absolutePath(watchFdMap[recs[k].wd])
                                                     \o "/" \o recs[k].name
          ELSE /\ readRecs' = <<>>
               /\ emitted' = <<>>
               /\ kernelQueue' = kernelQueue]_vars

\* the second poll after a burst longer than one read takes the rest
C16_Witness ==
    /\ IsPoll
    /\ readRecs # <<>>
    /\ readRecs[1].name = BurstName(BurstFits + 1)
    /\ Len(emitted) = Len(readRecs)
    /\ kernelQueue = <<>>

\* C17: a startWatching(D) that registers the existing directory D ends with
\* the handle of the registration mapped to D and polling armed, whatever
\* polling was before; the other entries stay, and when the handle was a key
\* already its entry is overwritten and the mapping has as many entries as
\* before.
C17_StartMapsHandleAndArms ==
    (IsStart /\ ret = "true" /\ arg.exists)
    => /\ lastStart # <<>>
       /\ LET h == lastStart[1].wd
          IN  /\ h \in DOMAIN kernelWatches /\ kernelWatches[h] = Inode(arg.directory)
              /\ DOMAIN watchFdMap = DOMAIN pre.map \cup {h}
              /\ watchFdMap[h] = arg.directory
              /\ \A k \in DOMAIN pre.map \ {h} : watchFdMap[k] = pre.map[k]
              /\ h \in DOMAIN pre.map
                    => Cardinality(DOMAIN watchFdMap) = Cardinality(DOMAIN pre.map)
              /\ eventsLoopTimer

C17_Witness ==
    /\ IsStart
    /\ ret = "true"
    /\ lastStart # <<>>
    /\ lastStart[1].wd \in DOMAIN pre.map
    /\ pre.map[lastStart[1].wd] # arg.directory
    /\ watchFdMap[lastStart[1].wd] = arg.directory
    /\ ~pre.timer
    /\ eventsLoopTimer

\* C18: whenever polling is armed the mapping has an entry: a call arms
\* polling only by registering a directory, a call that removes an entry is a
\* stopWatching and leaves polling disarmed.
C18_ArmedImpliesWatching ==
    /\ eventsLoopTimer => DOMAIN watchFdMap # {}
    /\ op # Idle
       => /\ (eventsLoopTimer /\ ~pre.timer) => StartRegistered
          /\ ~(DOMAIN pre.map \subseteq DOMAIN watchFdMap)
                => (~eventsLoopTimer /\ (IsStop \/ IsStopAll))

C18_Witness ==
    /\ IsStart
    /\ DOMAIN pre.map # {}
    /\ ~pre.timer
    /\ eventsLoopTimer
    /\ Cardinality(DOMAIN watchFdMap) > Cardinality(DOMAIN pre.map)

\* C19: the bulk stopWatching() returns after at most as many deregistration
\* attempts as the mapping had entries: every attempt is on the smallest
\* handle then in the mapping, every attempt but the last removed its entry,
\* the last removed it or made the call return false, and no handle is
\* attempted twice.
C19_BulkStopAttemptsBounded ==
    IsStopAll =>
        LET keys == DOMAIN pre.map
            n == Len(arg)
        IN  /\ ret \in {"true", "false"}
            /\ n <= Cardinality(keys)
            /\ \A i \in 1..n : arg[i] = Min(keys \ {arg[j] : j \in 1..(i - 1)})
            /\ \A i, j \in 1..n : i # j => arg[i] # arg[j]
            /\ \A i \in 1..(n - 1) : arg[i] \notin DOMAIN watchFdMap
            /\ n > 0 => (arg[n] \notin DOMAIN watchFdMap \/ ret = "false")
            /\ ret = "true" => n = Cardinality(keys)

C19_Witness ==
    /\ IsStopAll
    /\ Len(arg) = Cardinality(DOMAIN pre.map)
    /\ Len(arg) > 1
    /\ ret = "false"
====
